---- MODULE Spec2Model ----
(***************************************************************************)
(* Model of the notebook "06 - Automating ML Workflows with Pipelines":    *)
(* its cells executed in order, the two step scripts it writes             *)
(* (train_diabetes.py, register_diabetes.py) and the pipeline run that     *)
(* executes them on the compute target the notebook selected.              *)
(***************************************************************************)
EXTENDS Integers, Sequences, FiniteSets, TLC

VARIABLES
    nbPc,            \* index in CellOrder of the next notebook cell to execute
    nbError,         \* exception that stopped the notebook, or "none"
    wsLoaded,        \* ws = Workspace.from_config() has been executed
    scriptsWritten,  \* step scripts written by the %%writefile cells
    computeTargets,  \* names of the compute targets that exist in the workspace
    datasets,        \* names of the datasets registered in the workspace
    npHasFloat,      \* the numpy installed in the step environment has np.float
    cpu_cluster,     \* notebook variable cpu_cluster ("unbound" until assigned)
    provisioned,     \* arguments of every ComputeTarget.create call
    waited,          \* compute targets wait_for_completion has returned for
    runConfigTarget, \* pipeline_run_config.target
    stepTarget,      \* compute_target of each PythonScriptStep
    pipelineRun,     \* status of pipeline_run ("none" until submitted)
    model_folder,    \* path the PipelineData "model_folder" resolves to
    stepStatus,      \* status of each step run of the pipeline run
    stepPc,          \* next statement of each step script
    stepError,       \* exception that ended each step script, or "none"
    runCompleted,    \* steps whose script has called run.complete()
    runLog,          \* metrics logged with run.log
    output_path,     \* variable output_path of train_diabetes.py
    model_file,      \* variable model_file of register_diabetes.py
    datastore,       \* files present in the default datastore
    registry,        \* models registered in the workspace
    listed           \* what the final cell printed ({} until it runs)

vars == <<nbPc, nbError, wsLoaded, scriptsWritten, computeTargets, datasets,
          npHasFloat, cpu_cluster, provisioned, waited, runConfigTarget,
          stepTarget, pipelineRun, model_folder, stepStatus, stepPc,
          stepError, runCompleted, runLog, output_path, model_file,
          datastore, registry, listed>>

nbVars   == <<nbPc, nbError>>
envVars  == <<datasets, npHasFloat>>
compVars == <<computeTargets, cpu_cluster, provisioned, waited>>
defVars  == <<runConfigTarget, stepTarget>>
runVars  == <<pipelineRun, model_folder, stepStatus, stepPc, stepError,
              runCompleted, runLog, datastore, registry>>
pathVars == <<output_path, model_file>>

----------------------------------------------------------------------------
(* Bounds *)

MaxLen == 3

Chars == {"a", "/", "."}

\* every path of at most MaxLen characters
Folders == UNION {[1..n -> Chars] : n \in 0..MaxLen}

----------------------------------------------------------------------------
(* Names and literals of the notebook *)

TrainStep    == "Train Model"
RegisterStep == "Register Model"
Steps        == {TrainStep, RegisterStep}

cpu_cluster_name == "cpu-cluster"

PrerequisiteCompute == "cpu-compute"

DiabetesDataset == "Diabetes Dataset"

compute_config ==
    [vm_size |-> "STANDARD_D2_V2", vm_priority |-> "lowpriority", max_nodes |-> 4]

ModelPkl == <<"/", "m", "o", "d", "e", "l", ".", "p", "k", "l">>

\* the code cells of the notebook, top to bottom
CellOrderListFirst ==
    <<"install", "workspace", "folder", "write_train", "write_register",
      "compute", "runconfig", "steps", "list", "submit">>

CellOrder ==
    <<"install", "workspace", "folder", "write_train", "write_register",
      "compute", "runconfig", "steps", "submit", "list">>

Executed(c) == \E i \in 1..(nbPc - 1) : CellOrder[i] = c

AtCell(c) ==
    /\ nbError = "none"
    /\ nbPc <= Len(CellOrder)
    /\ CellOrder[nbPc] = c

----------------------------------------------------------------------------
(* The step scripts *)

TrainScript ==
    <<"parse_args", "get_context", "load_dataset", "select_xy", "log_reg",
      "fit", "makedirs", "set_output_path", "dump", "complete">>

RegisterScript ==
    <<"parse_args", "get_context", "set_model_file", "load_model",
      "register", "complete">>

Script(s) == IF s = TrainStep THEN TrainScript ELSE RegisterScript

TrainImports ==
    {"argparse", "joblib", "Workspace", "Dataset", "Experiment", "Run",
     "pd", "np", "train_test_split", "LogisticRegression"}

RegisterImports == {"argparse", "joblib", "Workspace", "Model", "Run"}

Imports(s) == IF s = TrainStep THEN TrainImports ELSE RegisterImports

\* the module-level name a statement looks up
Requires(stmt) ==
    CASE stmt = "parse_args"   -> "argparse"
      [] stmt = "get_context"  -> "Run"
      [] stmt = "load_dataset" -> "Dataset"
      [] stmt = "log_reg"      -> "np"
      [] stmt = "fit"          -> "LogisticRegression"
      [] stmt = "makedirs"     -> "os"
      [] stmt = "dump"         -> "joblib"
      [] stmt = "load_model"   -> "joblib"
      [] stmt = "register"     -> "Model"
      [] OTHER                 -> "none"

\* arguments each PythonScriptStep passes to its script
\* (regularization in tenths: 0.1)
StepArguments(s) ==
    IF s = TrainStep
    THEN [dataset_name |-> DiabetesDataset, regularization |-> 1,
          folder |-> model_folder]
    ELSE [dataset_name |-> "", regularization |-> 0, folder |-> model_folder]

Outputs(s) == IF s = TrainStep THEN {"model_folder"} ELSE {}

InputsNone(s) == {}

Inputs(s) == IF s = RegisterStep THEN {"model_folder"} ELSE {}

TrainOutputPath(output_folder) == output_folder \o ModelPkl

RegisterModelFileNoSeparator(folder) == folder \o Tail(ModelPkl)

RegisterModelFile(folder) == folder \o ModelPkl

\* "ok", or the exception the statement raises
Outcome(s, stmt) ==
    IF Requires(stmt) # "none" /\ Requires(stmt) \notin Imports(s)
    THEN "NameError"
    ELSE CASE stmt = "load_dataset" ->
                  IF StepArguments(s).dataset_name \in datasets
                  THEN "ok" ELSE "UserErrorException"
           [] stmt = "log_reg" ->
                  IF npHasFloat THEN "ok" ELSE "AttributeError"
           [] stmt = "fit" ->
                  IF StepArguments(s).regularization = 0
                  THEN "ZeroDivisionError" ELSE "ok"
           [] stmt = "load_model" ->
                  IF model_file \in datastore
                  THEN "ok" ELSE "FileNotFoundError"
           [] OTHER -> "ok"

NextVersion(name) == 1 + Cardinality({m \in registry : m.name = name})

RegisteredModel ==
    [name    |-> "diabetes_model",
     version |-> NextVersion("diabetes_model"),
     tags    |-> {<<"Training context", "Pipeline">>},
     path    |-> model_file,
     run     |-> RegisterStep]

----------------------------------------------------------------------------
(* Initial state: a workspace from the earlier exercises, nothing executed *)

Init ==
    /\ nbPc = 1
    /\ nbError = "none"
    /\ wsLoaded = FALSE
    /\ scriptsWritten = {}
    /\ computeTargets \in SUBSET {PrerequisiteCompute, cpu_cluster_name}
    /\ datasets \in SUBSET {DiabetesDataset}
    /\ npHasFloat \in BOOLEAN
    /\ cpu_cluster = "unbound"
    /\ provisioned = {}
    /\ waited = {}
    /\ runConfigTarget = "unbound"
    /\ stepTarget = [s \in Steps |-> "unbound"]
    /\ pipelineRun = "none"
    /\ model_folder = <<>>
    /\ stepStatus = [s \in Steps |-> "NotStarted"]
    /\ stepPc = [s \in Steps |-> 1]
    /\ stepError = [s \in Steps |-> "none"]
    /\ runCompleted = {}
    /\ runLog = {}
    /\ output_path = <<>>
    /\ model_file = <<>>
    /\ datastore = {}
    /\ registry = {}
    /\ listed = {}

----------------------------------------------------------------------------
(* Notebook cells *)

CellInstall ==
    /\ AtCell("install")
    /\ nbPc' = nbPc + 1
    /\ UNCHANGED <<nbError, wsLoaded, scriptsWritten, envVars, compVars,
                   defVars, runVars, pathVars, listed>>

CellWorkspace ==
    /\ AtCell("workspace")
    /\ wsLoaded' = TRUE
    /\ nbPc' = nbPc + 1
    /\ UNCHANGED <<nbError, scriptsWritten, envVars, compVars, defVars,
                   runVars, pathVars, listed>>

CellFolder ==
    /\ AtCell("folder")
    /\ nbPc' = nbPc + 1
    /\ UNCHANGED <<nbError, wsLoaded, scriptsWritten, envVars, compVars,
                   defVars, runVars, pathVars, listed>>

CellWriteTrain ==
    /\ AtCell("write_train")
    /\ scriptsWritten' = scriptsWritten \cup {"train_diabetes.py"}
    /\ nbPc' = nbPc + 1
    /\ UNCHANGED <<nbError, wsLoaded, envVars, compVars, defVars, runVars,
                   pathVars, listed>>

CellWriteRegister ==
    /\ AtCell("write_register")
    /\ scriptsWritten' = scriptsWritten \cup {"register_diabetes.py"}
    /\ nbPc' = nbPc + 1
    /\ UNCHANGED <<nbError, wsLoaded, envVars, compVars, defVars, runVars,
                   pathVars, listed>>

\* what ComputeTarget(workspace=ws, name=...) can do
LookupOutcomes(name) ==
    IF name \in computeTargets
    THEN {"found", "OtherException"}
    ELSE {"ComputeTargetException", "OtherException"}

CatchesAny(exc) == exc # "found"

Catches(exc) == exc = "ComputeTargetException"

CellComputeTarget ==
    /\ AtCell("compute")
    /\ \E o \in LookupOutcomes(cpu_cluster_name) :
         IF o = "found"
         THEN /\ cpu_cluster' = cpu_cluster_name
              /\ waited' = waited \cup {cpu_cluster_name}
              /\ nbPc' = nbPc + 1
              /\ UNCHANGED <<nbError, computeTargets, provisioned>>
         ELSE IF Catches(o)
         THEN /\ provisioned' = provisioned \cup
                    {[name |-> cpu_cluster_name, config |-> compute_config,
                      call |-> Cardinality(provisioned) + 1]}
              /\ computeTargets' = computeTargets \cup {cpu_cluster_name}
              /\ cpu_cluster' = cpu_cluster_name
              /\ waited' = waited \cup {cpu_cluster_name}
              /\ nbPc' = nbPc + 1
              /\ UNCHANGED nbError
         ELSE /\ nbError' = o
              /\ UNCHANGED <<nbPc, computeTargets, cpu_cluster, provisioned,
                             waited>>
    /\ UNCHANGED <<wsLoaded, scriptsWritten, envVars, defVars, runVars,
                   pathVars, listed>>

CellRunConfig ==
    /\ AtCell("runconfig")
    /\ runConfigTarget' = cpu_cluster
    /\ nbPc' = nbPc + 1
    /\ UNCHANGED <<nbError, wsLoaded, scriptsWritten, envVars, compVars,
                   stepTarget, runVars, pathVars, listed>>

CellDefineSteps ==
    /\ AtCell("steps")
    /\ stepTarget' = [s \in Steps |-> cpu_cluster]
    /\ nbPc' = nbPc + 1
    /\ UNCHANGED <<nbError, wsLoaded, scriptsWritten, envVars, compVars,
                   runConfigTarget, runVars, pathVars, listed>>

\* experiment.submit returns the PipelineRun once the run is submitted;
\* RunDetails(...).show() displays a widget
CellSubmit ==
    /\ AtCell("submit")
    /\ pipelineRun' = "Running"
    /\ \E f \in Folders \ {<<>>} : model_folder' = f
    /\ nbPc' = nbPc + 1
    /\ UNCHANGED <<nbError, wsLoaded, scriptsWritten, envVars, compVars,
                   defVars, stepStatus, stepPc, stepError, runCompleted,
                   runLog, datastore, registry, pathVars, listed>>

CellListModels ==
    /\ AtCell("list")
    /\ listed' = registry
    /\ nbPc' = nbPc + 1
    /\ UNCHANGED <<nbError, wsLoaded, scriptsWritten, envVars, compVars,
                   defVars, runVars, pathVars>>

----------------------------------------------------------------------------
(* The pipeline run *)

Produced(d) == \E t \in Steps : d \in Outputs(t) /\ stepStatus[t] = "Finished"

\* the platform starts a step once every input of it has been produced
StartStep(s) ==
    /\ pipelineRun = "Running"
    /\ stepStatus[s] = "NotStarted"
    /\ \A t \in Steps : stepStatus[t] # "Failed"
    /\ \A d \in Inputs(s) : Produced(d)
    /\ stepStatus' = [stepStatus EXCEPT ![s] = "Running"]
    /\ UNCHANGED <<nbVars, wsLoaded, scriptsWritten, envVars, compVars,
                   defVars, pipelineRun, model_folder, stepPc, stepError,
                   runCompleted, runLog, datastore, registry, pathVars,
                   listed>>

\* one statement of a running step script
ScriptStep(s) ==
    /\ stepStatus[s] = "Running"
    /\ stepPc[s] <= Len(Script(s))
    /\ LET stmt == Script(s)[stepPc[s]]
           exc  == Outcome(s, stmt)
       IN  IF exc # "ok"
           THEN /\ stepStatus' = [stepStatus EXCEPT ![s] = "Failed"]
                /\ stepError' = [stepError EXCEPT ![s] = exc]
                /\ UNCHANGED <<stepPc, runCompleted, runLog, datastore,
                               registry, pathVars>>
           ELSE /\ stepPc' = [stepPc EXCEPT ![s] = @ + 1]
                /\ stepStatus' =
                     IF stepPc[s] = Len(Script(s))
                     THEN [stepStatus EXCEPT ![s] = "Finished"]
                     ELSE stepStatus
                /\ runLog' =
                     IF stmt = "log_reg"
                     THEN runLog \cup {<<"Regularization Rate",
                                         StepArguments(s).regularization>>}
                     ELSE runLog
                /\ output_path' =
                     IF stmt = "set_output_path"
                     THEN TrainOutputPath(StepArguments(s).folder)
                     ELSE output_path
                /\ model_file' =
                     IF stmt = "set_model_file"
                     THEN RegisterModelFile(StepArguments(s).folder)
                     ELSE model_file
                /\ datastore' =
                     IF stmt = "dump"
                     THEN datastore \cup {output_path}
                     ELSE datastore
                /\ registry' =
                     IF stmt = "register"
                     THEN registry \cup {RegisteredModel}
                     ELSE registry
                /\ runCompleted' =
                     IF stmt = "complete"
                     THEN runCompleted \cup {s}
                     ELSE runCompleted
                /\ UNCHANGED stepError
    /\ UNCHANGED <<nbVars, wsLoaded, scriptsWritten, envVars, compVars,
                   defVars, pipelineRun, model_folder, listed>>

\* the run ends when no step is running and none is left that can start:
\* a step failed, or every step finished
FinishRun ==
    /\ pipelineRun = "Running"
    /\ \A s \in Steps : stepStatus[s] # "Running"
    /\ \A s \in Steps : stepStatus[s] = "NotStarted" =>
                            \E t \in Steps : stepStatus[t] = "Failed"
    /\ IF \E s \in Steps : stepStatus[s] = "Failed"
       THEN /\ pipelineRun' = "Failed"
            /\ stepStatus' = [s \in Steps |->
                                IF stepStatus[s] = "NotStarted"
                                THEN "Canceled" ELSE stepStatus[s]]
       ELSE /\ pipelineRun' = "Finished"
            /\ UNCHANGED stepStatus
    /\ UNCHANGED <<nbVars, wsLoaded, scriptsWritten, envVars, compVars,
                   defVars, model_folder, stepPc, stepError, runCompleted,
                   runLog, datastore, registry, pathVars, listed>>

Next ==
    \/ CellInstall
    \/ CellWorkspace
    \/ CellFolder
    \/ CellWriteTrain
    \/ CellWriteRegister
    \/ CellComputeTarget
    \/ CellRunConfig
    \/ CellDefineSteps
    \/ CellSubmit
    \/ CellListModels
    \/ \E s \in Steps : StartStep(s)
    \/ \E s \in Steps : ScriptStep(s)
    \/ FinishRun

Spec == Init /\ [][Next]_vars

----------------------------------------------------------------------------
(* The two path computations applied to every value of the data reference *)

InitPaths ==
    /\ nbPc = 1
    /\ nbError = "none"
    /\ wsLoaded = FALSE
    /\ scriptsWritten = {}
    /\ computeTargets = {PrerequisiteCompute}
    /\ datasets = {DiabetesDataset}
    /\ npHasFloat = TRUE
    /\ cpu_cluster = "unbound"
    /\ provisioned = {}
    /\ waited = {}
    /\ runConfigTarget = "unbound"
    /\ stepTarget = [s \in Steps |-> "unbound"]
    /\ pipelineRun = "none"
    /\ model_folder \in Folders
    /\ stepStatus = [s \in Steps |-> "NotStarted"]
    /\ stepPc = [s \in Steps |-> 1]
    /\ stepError = [s \in Steps |-> "none"]
    /\ runCompleted = {}
    /\ runLog = {}
    /\ output_path = <<>>
    /\ model_file = <<>>
    /\ datastore = {}
    /\ registry = {}
    /\ listed = {}

\* train_diabetes.py: output_path = output_folder + "/model.pkl"
SetOutputPath ==
    /\ output_path = <<>>
    /\ output_path' = TrainOutputPath(StepArguments(TrainStep).folder)
    /\ UNCHANGED <<nbVars, wsLoaded, scriptsWritten, envVars, compVars,
                   defVars, runVars, model_file, listed>>

\* register_diabetes.py: model_file = model_folder + "/model.pkl"
SetModelFile ==
    /\ model_file = <<>>
    /\ model_file' = RegisterModelFile(StepArguments(RegisterStep).folder)
    /\ UNCHANGED <<nbVars, wsLoaded, scriptsWritten, envVars, compVars,
                   defVars, runVars, output_path, listed>>

NextPaths ==
    \/ SetOutputPath
    \/ SetModelFile

SpecPaths == InitPaths /\ [][NextPaths]_vars

----------------------------------------------------------------------------
(* Properties *)

RunEnded == pipelineRun \in {"Finished", "Failed"}

RegisteredByRun(models) ==
    \E m \in models :
        /\ m.name = "diabetes_model"
        /\ <<"Training context", "Pipeline">> \in m.tags
        /\ m.run = RegisterStep

\* the workspace holds the dataset and the step environment can run np.float
StepEnvironmentSound == DiabetesDataset \in datasets /\ npHasFloat

\* C1: when the pipeline run has ended, in a workspace that holds the
\* dataset, a model 'diabetes_model' tagged 'Training context' = 'Pipeline'
\* has been registered by the run's Register Model step.
C1_RunRegistersModel ==
    (RunEnded /\ StepEnvironmentSound) => RegisteredByRun(registry)

\* C2: as long as the Train Model step has not completed, the Register
\* Model step has not started and its script has executed no statement, so
\* it has not read the model folder.
C2_RegisterAfterTrain ==
    stepStatus[TrainStep] # "Finished" =>
        /\ stepStatus[RegisterStep] \in {"NotStarted", "Canceled"}
        /\ stepPc[RegisterStep] = 1
        /\ model_file = <<>>

\* Train Model is executing its script while Register Model is held back
C2_Witness ==
    /\ pipelineRun = "Running"
    /\ stepStatus[TrainStep] = "Running"
    /\ stepPc[TrainStep] > 1
    /\ stepStatus[RegisterStep] = "NotStarted"

\* C3: the train script, started with an existing dataset's name, a
\* non-zero regularization rate and an output folder, ends only by reaching
\* run.complete(), having logged the rate and saved <output_folder>/model.pkl.
C3_TrainRunsToEnd ==
    ( /\ stepStatus[TrainStep] \in {"Finished", "Failed"}
      /\ StepEnvironmentSound
      /\ StepArguments(TrainStep).regularization # 0
      /\ StepArguments(TrainStep).folder # <<>> )
    => /\ TrainStep \in runCompleted
       /\ TrainOutputPath(StepArguments(TrainStep).folder) \in datastore

C4_UseAfterWait ==
    ( \/ runConfigTarget # "unbound"
      \/ \E s \in Steps : stepTarget[s] # "unbound"
      \/ pipelineRun # "none" )
    => /\ cpu_cluster = cpu_cluster_name
       /\ cpu_cluster \in waited
       /\ cpu_cluster \in computeTargets

C4_CreatedOnce ==
    provisioned \subseteq
        {[name |-> cpu_cluster_name, config |-> compute_config, call |-> 1]}

C4_ComputeCell ==
    AtCell("compute") =>
        \/ /\ cpu_cluster_name \in computeTargets
           /\ nbError' = "none"
           /\ cpu_cluster' = cpu_cluster_name
           /\ cpu_cluster' \in waited'
           /\ provisioned' = provisioned
           /\ computeTargets' = computeTargets
        \/ /\ cpu_cluster_name \notin computeTargets
           /\ nbError' = "none"
           /\ cpu_cluster' = cpu_cluster_name
           /\ cpu_cluster' \in waited'
           /\ Cardinality(provisioned') = Cardinality(provisioned) + 1
           /\ computeTargets' = computeTargets \cup {cpu_cluster_name}
        \/ /\ nbError' \notin {"none", "ComputeTargetException"}
           /\ cpu_cluster' = "unbound"
           /\ provisioned' = provisioned
           /\ computeTargets' = computeTargets
           /\ nbPc' = nbPc

\* C4: the compute cell uses the target when the lookup finds it and creates
\* nothing; on ComputeTargetException it creates exactly one cluster
\* (STANDARD_D2_V2, lowpriority, max_nodes 4); any other exception stops the
\* notebook with nothing created and cpu_cluster unbound; and every later use
\* of cpu_cluster follows wait_for_completion on it.
C4_ComputeTargetSelection ==
    /\ [](C4_UseAfterWait /\ C4_CreatedOnce)
    /\ [][C4_ComputeCell]_vars

\* the cluster was created and the step definitions use it
C4_Witness ==
    /\ provisioned # {}
    /\ stepTarget[TrainStep] = cpu_cluster_name
    /\ cpu_cluster_name \in waited

\* C5 (as stated): the final cell that lists the models executes only after
\* the submitted pipeline run has finished.
C5_ListAfterRunEnded == Executed("list") => RunEnded

\* C5 (amended): the final cell executes only after the pipeline run has
\* been submitted, and lists models that are registered in the workspace.
C5_ListAfterSubmit ==
    Executed("list") => (pipelineRun # "none" /\ listed \subseteq registry)

\* the listing has executed while the pipeline run is still running
C5_Witness ==
    /\ Executed("list")
    /\ pipelineRun = "Running"
    /\ stepStatus[TrainStep] = "Running"

\* C6: in a workspace where 'cpu-compute' exists, the notebook provisions no
\* compute cluster and both steps target 'cpu-compute'.
C6_UsesPrerequisiteCompute ==
    (PrerequisiteCompute \in computeTargets /\ Executed("steps")) =>
        /\ provisioned = {}
        /\ \A s \in Steps : stepTarget[s] = PrerequisiteCompute

\* C7: for every value of the model_folder data reference, the path the
\* register script loads and registers equals the path the train script
\* wrote.
C7_SamePath ==
    (output_path # <<>> /\ model_file # <<>>) => output_path = model_file

\* both scripts have computed their path from a non-empty folder
C7_Witness ==
    /\ Len(model_folder) > 0
    /\ output_path # <<>>
    /\ model_file = RegisterModelFile(model_folder)

====
